---- MODULE Spec2Model ----
(***************************************************************************)
(* Model of blink_timer.pyw: the Timer records, the overlap resolver       *)
(* (TimersThread._reschedule_covered_timers), the TimersThread run loop    *)
(* with its blocking screen overlay, and the App (tray menu) thread that   *)
(* talks to it through timers_event_queue, timers_wake_event and           *)
(* main_event_queue.                                                       *)
(***************************************************************************)
EXTENDS Integers, Sequences, FiniteSets, TLC

VARIABLES
    timers,               \* TimersThread._timers: sequence of Timer records
    now,                  \* the value timestamp() returns (whole seconds)
    timers_event_queue,   \* Queue of TimerMessage values sent to TimersThread
    timers_wake_event,    \* Event: TRUE when set
    main_event_queue,     \* Queue of status strings sent to App
    geometries,           \* TimersThread._geometries (number of cached monitors)
    overlay,              \* TimersThread._overlay: 0 is None, else the shown timer's index
    overlay_start,        \* ScreenOverlay._start_time
    pc,                   \* position of the TimersThread
    app_pc,               \* position of the App (tray icon) thread
    enqueued,             \* history: every value put on timers_event_queue, in order
    applied,              \* history: every value TimersThread.run dequeued, in order
    notifications,        \* number of Icon.notify calls made by App._timers_status
    loop_timer_idx,       \* _reschedule_covered_timers: index of timer (0: not in a loop)
    loop_higher_idx       \* _reschedule_covered_timers: index of higher_prio_timer

\* the loop variables of _reschedule_covered_timers
resolver_position == <<loop_timer_idx, loop_higher_idx>>

vars == <<timers, now, timers_event_queue, timers_wake_event, main_event_queue,
          geometries, overlay, overlay_start, pc, app_pc, enqueued, applied,
          notifications, resolver_position>>

---------------------------------------------------------------------------
(* Bounds of the model *)

MaxTime == 18
MaxMsgs == 2
MaxPeriod == 4
MaxDuration == 2

(* Program constants *)

SLEEP_THRESHOLD == 10
POLL_TIMEOUT == 1

STATUS == "STATUS"
UPDATE_GEOMETRY == "UPDATE_GEOMETRY"
RESET_TIMERS == "RESET_TIMERS"
QUIT == "QUIT"

TimerMessage == {STATUS, UPDATE_GEOMETRY, RESET_TIMERS, QUIT}

\* what get_monitors() can return: the number of monitors attached
MonitorLayouts == {1, 2}

---------------------------------------------------------------------------
(* class Timer *)

TimerConfig(period, duration) == [period_s |-> period, duration_s |-> duration]

\* variant of Timer.reset that adds the period to the old next_time
reset_from_next_time(timer, timestamp) ==
    [timer EXCEPT !.next_time = timer.next_time + timer.period_s]

\* Timer.reset
reset(timer, timestamp) ==
    [timer EXCEPT !.next_time = timestamp + timer.period_s]

\* Timer.__init__
Timer(config, timestamp) ==
    reset([period_s |-> config.period_s, duration_s |-> config.duration_s,
           next_time |-> 0], timestamp)

\* variant of Timer.reschedule that adds the duration instead of the period
reschedule_by_duration(timer) ==
    [timer EXCEPT !.next_time = timer.next_time + timer.duration_s]

\* Timer.reschedule
reschedule(timer) ==
    [timer EXCEPT !.next_time = timer.next_time + timer.period_s]

\* Timer.get_next_time_finish
get_next_time_finish(timer) == timer.next_time + timer.duration_s

\* the part of Timer.__str__ that depends on the state: next_time - timestamp()
remaining(timer, timestamp) == timer.next_time - timestamp

\* for timer in self._timers: timer.reset(now)
reset_all(ts, timestamp) == [i \in 1..Len(ts) |-> reset(ts[i], timestamp)]

---------------------------------------------------------------------------
(* TimersThread._reschedule_covered_timers *)

\* the condition of the while loop
covered(timer, higher_prio_timer) ==
    /\ get_next_time_finish(timer) >= higher_prio_timer.next_time
    /\ timer.next_time <= get_next_time_finish(higher_prio_timer)

\* the while loop: reschedule timer until it no longer covers higher_prio_timer
RECURSIVE reschedule_while_covered(_, _)
reschedule_while_covered(timer, higher_prio_timer) ==
    IF covered(timer, higher_prio_timer)
    THEN reschedule_while_covered(reschedule(timer), higher_prio_timer)
    ELSE timer

\* the inner for loop: higher_prio_timer ranges over ts[k .. timer_idx-1], once each
RECURSIVE check_higher_prio(_, _, _)
check_higher_prio(ts, timer_idx, k) ==
    IF k >= timer_idx
    THEN ts[timer_idx]
    ELSE check_higher_prio(
            [ts EXCEPT ![timer_idx] = reschedule_while_covered(ts[timer_idx], ts[k])],
            timer_idx, k + 1)

\* the outer for loop, from timer_idx on
RECURSIVE reschedule_from(_, _)
reschedule_from(ts, timer_idx) ==
    IF timer_idx > Len(ts)
    THEN ts
    ELSE reschedule_from([ts EXCEPT ![timer_idx] = check_higher_prio(ts, timer_idx, 1)],
                         timer_idx + 1)

\* variant that runs the loops over the reversed list: every timer is checked against
\* the timers of lower priority
reschedule_covered_timers_reversed(ts) ==
    LET n == Len(ts)
        rev(s) == [i \in 1..n |-> s[n + 1 - i]]
    IN  rev(reschedule_from(rev(ts), 1))

\* for timer_idx, timer in enumerate(self._timers): ...
reschedule_covered_timers(ts) == reschedule_from(ts, 1)

---------------------------------------------------------------------------
(* Configurations *)

\* duration of a higher-priority timer >= duration of every lower-priority one
DurationDominance(cfg) ==
    \A i \in 1..Len(cfg) : \A j \in 1..Len(cfg) :
        i < j => cfg[i].duration_s >= cfg[j].duration_s

ConfigDomain ==
    [period_s : 1..MaxPeriod, duration_s : 1..MaxDuration]

\* priority-ordered timer lists of 2 or 3 timers that pass the config check
ConfigSet ==
    {cfg \in [1..2 -> ConfigDomain] \cup [1..3 -> ConfigDomain] : DurationDominance(cfg)}

\* the configurations the scheduler is run with
MainConfigs ==
    { <<TimerConfig(6, 2), TimerConfig(4, 1)>>,
      <<TimerConfig(8, 2), TimerConfig(4, 2), TimerConfig(3, 1)>> }

\* TimersThread.__init__, line 117
new_timers(cfg, timestamp) == [i \in 1..Len(cfg) |-> Timer(cfg[i], timestamp)]

---------------------------------------------------------------------------
(* TimersThread._check_timers *)

\* variant of "if diff > 0" that takes a timer at exactly its next_time as due
is_due_inclusive(diff) == diff >= 0

\* diff = now - timer.next_time; "if diff > 0"
is_due(diff) == diff > 0

\* variant of "if diff < 10" that still activates at the threshold itself
is_near_inclusive(diff) == diff <= SLEEP_THRESHOLD

\* "if diff < 10" (the else branch is the sleep detection)
is_near(diff) == diff < SLEEP_THRESHOLD

\* index of the first timer of the for loop with diff > 0, 0 when the loop ends without one
RECURSIVE first_due(_, _, _)
first_due(ts, timestamp, i) ==
    IF i > Len(ts) THEN 0
    ELSE IF is_due(timestamp - ts[i].next_time) THEN i
    ELSE first_due(ts, timestamp, i + 1)

\* what the for loop does: "none", "activate" the timer idx, or sleep detected ("reset")
check_timers(ts, timestamp) ==
    LET idx == first_due(ts, timestamp, 1) IN
    IF idx = 0 THEN [do |-> "none", idx |-> 0]
    ELSE IF is_near(timestamp - ts[idx].next_time) THEN [do |-> "activate", idx |-> idx]
    ELSE [do |-> "reset", idx |-> idx]

\* the status string: one line per timer (remaining time; title and period are constant)
status_str(ts, timestamp) == [i \in 1..Len(ts) |-> remaining(ts[i], timestamp)]

\* the number of Status requests among the messages enqueued so far
RECURSIVE StatusRequests(_)
StatusRequests(q) ==
    IF q = <<>> THEN 0
    ELSE (IF Head(q) = STATUS THEN 1 ELSE 0) + StatusRequests(Tail(q))

\* what main_event_queue.put(status_str) adds to the queue: the string, and (history)
\* how many Status requests had been enqueued when it was computed
status_report(ts, timestamp, q) ==
    [status |-> status_str(ts, timestamp), requests |-> StatusRequests(q)]

\* what timestamp() can advance by during one timers_wake_event.wait(timeout=1):
\* the poll timeout, or a suspend of the machine
TimeSteps == {POLL_TIMEOUT, SLEEP_THRESHOLD}

---------------------------------------------------------------------------
(* TimersThread.run *)

\* wait() returns True: the event is set
WaitWake ==
    /\ pc = "wait"
    /\ timers_wake_event
    /\ pc' = "clear"
    /\ UNCHANGED resolver_position
    /\ UNCHANGED <<timers, now, timers_event_queue, timers_wake_event, main_event_queue,
                   geometries, overlay, overlay_start, app_pc, enqueued, applied,
                   notifications>>

\* wait() returns False after the timeout: the queue is not drained, _check_timers runs
WaitTimeoutBy(d) ==
    /\ pc = "wait"
    /\ ~timers_wake_event
    /\ now + d <= MaxTime
    /\ now' = now + d
    /\ pc' = "check"
    /\ UNCHANGED resolver_position
    /\ UNCHANGED <<timers, timers_event_queue, timers_wake_event, main_event_queue,
                   geometries, overlay, overlay_start, app_pc, enqueued, applied,
                   notifications>>

\* the wait times out, after its second or after a suspension of the machine
WaitTimeout == \E d \in TimeSteps : WaitTimeoutBy(d)

\* timers_wake_event.clear()
ClearWake ==
    /\ pc = "clear"
    /\ timers_wake_event' = FALSE
    /\ pc' = "drain"
    /\ UNCHANGED resolver_position
    /\ UNCHANGED <<timers, now, timers_event_queue, main_event_queue,
                   geometries, overlay, overlay_start, app_pc, enqueued, applied,
                   notifications>>

\* variant of the drain loop that breaks while messages are still queued
DrainEmpty_early ==
    /\ pc = "drain"
    /\ pc' = "check"
    /\ UNCHANGED resolver_position
    /\ UNCHANGED <<timers, now, timers_event_queue, timers_wake_event, main_event_queue,
                   geometries, overlay, overlay_start, app_pc, enqueued, applied,
                   notifications>>

\* get_nowait() raises Empty: break, then _check_timers
DrainEmpty ==
    /\ pc = "drain"
    /\ timers_event_queue = <<>>
    /\ pc' = "check"
    /\ UNCHANGED resolver_position
    /\ UNCHANGED <<timers, now, timers_event_queue, timers_wake_event, main_event_queue,
                   geometries, overlay, overlay_start, app_pc, enqueued, applied,
                   notifications>>

\* variant of the dequeue that takes the newest message instead of the oldest
Dequeue_newest(event) ==
    /\ pc = "drain"
    /\ timers_event_queue # <<>>
    /\ event = timers_event_queue[Len(timers_event_queue)]
    /\ timers_event_queue' = SubSeq(timers_event_queue, 1, Len(timers_event_queue) - 1)
    /\ applied' = Append(applied, event)

\* event = timers_event_queue.get_nowait()
Dequeue(event) ==
    /\ pc = "drain"
    /\ timers_event_queue # <<>>
    /\ event = Head(timers_event_queue)
    /\ timers_event_queue' = Tail(timers_event_queue)
    /\ applied' = Append(applied, event)

\* variant of the QUIT branch that breaks out of the drain loop instead of returning
after_quit_break == "check"

\* the position of run after a QUIT event: return
after_quit == "done"

HandleStatus ==
    /\ Dequeue(STATUS)
    /\ main_event_queue' = Append(main_event_queue, status_report(timers, now, enqueued))
    /\ UNCHANGED resolver_position
    /\ UNCHANGED <<timers, now, timers_wake_event, geometries, overlay, overlay_start,
                   pc, app_pc, enqueued, notifications>>

\* _update_geometries: the cache is refilled from get_monitors()
HandleUpdateGeometry ==
    /\ Dequeue(UPDATE_GEOMETRY)
    /\ \E monitors \in MonitorLayouts : geometries' = monitors
    /\ UNCHANGED resolver_position
    /\ UNCHANGED <<timers, now, timers_wake_event, main_event_queue, overlay,
                   overlay_start, pc, app_pc, enqueued, notifications>>

HandleReset ==
    /\ Dequeue(RESET_TIMERS)
    /\ timers' = reschedule_covered_timers(reset_all(timers, now))
    /\ UNCHANGED resolver_position
    /\ UNCHANGED <<now, timers_wake_event, main_event_queue, geometries, overlay,
                   overlay_start, pc, app_pc, enqueued, notifications>>

HandleQuit ==
    /\ Dequeue(QUIT)
    /\ pc' = after_quit
    /\ UNCHANGED resolver_position
    /\ UNCHANGED <<timers, now, timers_wake_event, main_event_queue, geometries,
                   overlay, overlay_start, app_pc, enqueued, notifications>>

---------------------------------------------------------------------------
(* _check_timers, _activate_timer, _show_screen_overlay *)

CheckNoneDue ==
    /\ pc = "check"
    /\ check_timers(timers, now).do = "none"
    /\ pc' = "wait"
    /\ UNCHANGED resolver_position
    /\ UNCHANGED <<timers, now, timers_event_queue, timers_wake_event, main_event_queue,
                   geometries, overlay, overlay_start, app_pc, enqueued, applied,
                   notifications>>

\* variant of _show_screen_overlay that does not block: run goes on to its next wait
in_mainloop_nonblocking == "wait"

\* the position of the thread once ScreenOverlay is constructed: inside mainloop()
in_mainloop == "overlay"

\* _activate_timer up to the blocking mainloop() of the overlay
CheckActivate ==
    /\ pc = "check"
    /\ check_timers(timers, now).do = "activate"
    /\ overlay' = check_timers(timers, now).idx
    /\ overlay_start' = now
    /\ pc' = in_mainloop
    /\ UNCHANGED resolver_position
    /\ UNCHANGED <<timers, now, timers_event_queue, timers_wake_event, main_event_queue,
                   geometries, app_pc, enqueued, applied, notifications>>

\* "Sleep detected, resetting timers"
CheckSleepDetected ==
    /\ pc = "check"
    /\ check_timers(timers, now).do = "reset"
    /\ timers' = reset_all(timers, now)
    /\ pc' = "wait"
    /\ UNCHANGED resolver_position
    /\ UNCHANGED <<now, timers_event_queue, timers_wake_event, main_event_queue,
                   geometries, overlay, overlay_start, app_pc, enqueued, applied,
                   notifications>>

\* a second passes while the overlay is shown (it closes itself after duration_s)
OverlayTick ==
    /\ pc = "overlay"
    /\ overlay # 0
    /\ now - overlay_start < timers[overlay].duration_s
    /\ now + 1 <= MaxTime
    /\ now' = now + 1
    /\ UNCHANGED resolver_position
    /\ UNCHANGED <<timers, timers_event_queue, timers_wake_event, main_event_queue,
                   geometries, overlay, overlay_start, pc, app_pc, enqueued, applied,
                   notifications>>

\* the timers after the overlay of timer idx returned: timer.reschedule(), then
\* _reschedule_covered_timers()
after_activation(ts, idx) ==
    reschedule_covered_timers([ts EXCEPT ![idx] = reschedule(ts[idx])])

\* ScreenOverlay.destroy (mouse click, or after duration_s): mainloop() returns,
\* _overlay = None, and _activate_timer reschedules
OverlayReturn ==
    /\ pc = "overlay"
    /\ overlay # 0
    /\ overlay' = 0
    /\ timers' = after_activation(timers, overlay)
    /\ pc' = "wait"
    /\ UNCHANGED resolver_position
    /\ UNCHANGED <<now, timers_event_queue, timers_wake_event, main_event_queue,
                   geometries, overlay_start, app_pc, enqueued, applied, notifications>>

---------------------------------------------------------------------------
(* App: the tray menu callbacks *)

\* timers_event_queue.put(msg), the first statement of each menu callback
Put(msg) ==
    /\ app_pc = "menu"
    /\ Len(enqueued) < MaxMsgs
    /\ timers_event_queue' = Append(timers_event_queue, msg)
    /\ enqueued' = Append(enqueued, msg)
    /\ UNCHANGED resolver_position
    /\ UNCHANGED <<timers, now, timers_wake_event, main_event_queue, geometries,
                   overlay, overlay_start, pc, applied, notifications>>

\* variant of the menu callbacks that leaves out timers_wake_event.set()
SetWake_skipped ==
    UNCHANGED <<timers, now, timers_event_queue, timers_wake_event, main_event_queue,
                geometries, overlay, overlay_start, pc, enqueued, applied, notifications,
                resolver_position>>

\* timers_wake_event.set(), the second statement of each menu callback
SetWake ==
    /\ timers_wake_event' = TRUE
    /\ UNCHANGED resolver_position
    /\ UNCHANGED <<timers, now, timers_event_queue, main_event_queue, geometries,
                   overlay, overlay_start, pc, enqueued, applied, notifications>>

AppStatusPut ==
    /\ Put(STATUS)
    /\ app_pc' = "status_set"

AppStatusSet ==
    /\ app_pc = "status_set"
    /\ SetWake
    /\ app_pc' = "status_get"

\* main_event_queue.get(timeout=1) returns a status string: Icon.notify shows it
AppStatusNotify ==
    /\ app_pc = "status_get"
    /\ main_event_queue # <<>>
    /\ main_event_queue' = Tail(main_event_queue)
    /\ notifications' = notifications + 1
    /\ app_pc' = "menu"
    /\ UNCHANGED resolver_position
    /\ UNCHANGED <<timers, now, timers_event_queue, timers_wake_event, geometries,
                   overlay, overlay_start, pc, enqueued, applied>>

\* variant of _timers_status without the "except Empty": the exception propagates
status_not_received_raises(n) == [app_pc |-> "raised", notifications |-> n]

\* "except Empty": print, return. The App's position and notification count afterwards
status_not_received(n) == [app_pc |-> "menu", notifications |-> n]

\* main_event_queue.get(timeout=1) raises Empty: nothing arrived for a second, which
\* takes a TimersThread that is blocked in the overlay's mainloop or has returned
AppStatusTimeout ==
    /\ app_pc = "status_get"
    /\ main_event_queue = <<>>
    /\ pc \in {"overlay", "done"}
    /\ app_pc' = status_not_received(notifications).app_pc
    /\ notifications' = status_not_received(notifications).notifications
    /\ UNCHANGED resolver_position
    /\ UNCHANGED <<timers, now, timers_event_queue, timers_wake_event, main_event_queue,
                   geometries, overlay, overlay_start, pc, enqueued, applied>>

AppResetPut ==
    /\ Put(RESET_TIMERS)
    /\ app_pc' = "reset_set"

AppResetSet ==
    /\ app_pc = "reset_set"
    /\ SetWake
    /\ app_pc' = "menu"

AppGeometryPut ==
    /\ Put(UPDATE_GEOMETRY)
    /\ app_pc' = "geometry_set"

AppGeometrySet ==
    /\ app_pc = "geometry_set"
    /\ SetWake
    /\ app_pc' = "menu"

AppQuitPut ==
    /\ Put(QUIT)
    /\ app_pc' = "quit_set"

\* timers_wake_event.set() and self._icon.stop(): Icon.run returns, App.run joins.
\* _quit does not call TimersThread.cancel, so the overlay is left as it is
AppQuitSet ==
    /\ app_pc = "quit_set"
    /\ timers_wake_event' = TRUE
    /\ app_pc' = "join"
    /\ UNCHANGED resolver_position
    /\ UNCHANGED <<timers, now, timers_event_queue, main_event_queue, geometries,
                   overlay, overlay_start, pc, enqueued, applied, notifications>>

\* self._timers_thread.join() returns once TimersThread.run has returned
AppJoin ==
    /\ app_pc = "join"
    /\ pc = "done"
    /\ app_pc' = "exited"
    /\ UNCHANGED resolver_position
    /\ UNCHANGED <<timers, now, timers_event_queue, timers_wake_event, main_event_queue,
                   geometries, overlay, overlay_start, pc, enqueued, applied,
                   notifications>>

---------------------------------------------------------------------------
(* The program: App.__init__ constructs the TimersThread, App.run starts it *)

\* the state after construction with one of the configurations cfgs
InitWith(cfgs) ==
    /\ now = 0
    /\ \E cfg \in cfgs :
        timers = reschedule_covered_timers(new_timers(cfg, now))
    /\ geometries = 1
    /\ overlay = 0
    /\ overlay_start = 0
    /\ timers_event_queue = <<>>
    /\ timers_wake_event = FALSE
    /\ main_event_queue = <<>>
    /\ pc = "wait"
    /\ app_pc = "menu"
    /\ enqueued = <<>>
    /\ applied = <<>>
    /\ notifications = 0
    /\ loop_timer_idx = 0
    /\ loop_higher_idx = 0

Init == InitWith(MainConfigs)

Next ==
    \/ WaitWake
    \/ WaitTimeout
    \/ ClearWake
    \/ DrainEmpty
    \/ HandleStatus
    \/ HandleUpdateGeometry
    \/ HandleReset
    \/ HandleQuit
    \/ CheckNoneDue
    \/ CheckActivate
    \/ CheckSleepDetected
    \/ OverlayTick
    \/ OverlayReturn
    \/ AppStatusPut
    \/ AppStatusSet
    \/ AppStatusNotify
    \/ AppStatusTimeout
    \/ AppResetPut
    \/ AppResetSet
    \/ AppGeometryPut
    \/ AppGeometrySet
    \/ AppQuitPut
    \/ AppQuitSet
    \/ AppJoin

Spec == Init /\ [][Next]_vars

---------------------------------------------------------------------------
(* The overlap resolver alone, on freshly constructed timer lists *)

\* TimersThread.__init__ before its "initial check": every timer reset at one timestamp
ResolverInit ==
    /\ now = 0
    /\ \E cfg \in ConfigSet : timers = new_timers(cfg, now)
    /\ geometries = 1
    /\ overlay = 0
    /\ overlay_start = 0
    /\ timers_event_queue = <<>>
    /\ timers_wake_event = FALSE
    /\ main_event_queue = <<>>
    /\ pc = "resolver_input"
    /\ app_pc = "menu"
    /\ enqueued = <<>>
    /\ applied = <<>>
    /\ notifications = 0
    /\ loop_timer_idx = 0
    /\ loop_higher_idx = 0

\* self._reschedule_covered_timers()
ResolverFirstRun ==
    /\ pc = "resolver_input"
    /\ timers' = reschedule_covered_timers(timers)
    /\ pc' = "resolved_once"
    /\ UNCHANGED resolver_position
    /\ UNCHANGED <<now, timers_event_queue, timers_wake_event, main_event_queue,
                   geometries, overlay, overlay_start, app_pc, enqueued, applied,
                   notifications>>

\* self._reschedule_covered_timers() again, on the output of the first run
ResolverSecondRun ==
    /\ pc = "resolved_once"
    /\ timers' = reschedule_covered_timers(timers)
    /\ pc' = "resolved_twice"
    /\ UNCHANGED resolver_position
    /\ UNCHANGED <<now, timers_event_queue, timers_wake_event, main_event_queue,
                   geometries, overlay, overlay_start, app_pc, enqueued, applied,
                   notifications>>

ResolverNext ==
    \/ ResolverFirstRun
    \/ ResolverSecondRun

SpecResolver == ResolverInit /\ [][ResolverNext]_vars

---------------------------------------------------------------------------
(* Properties of the overlap resolver *)

\* the intervals of timer and higher_prio_timer are disjoint
disjoint(timer, higher_prio_timer) ==
    \/ get_next_time_finish(timer) < higher_prio_timer.next_time
    \/ timer.next_time > get_next_time_finish(higher_prio_timer)

NoOverlap(ts) ==
    \A h \in 1..Len(ts) : \A t \in 1..Len(ts) :
        h < t => disjoint(ts[t], ts[h])

\* C1: after one run of the resolver on a priority-ordered list that satisfies the
\* duration dominance, every lower-priority timer's interval is disjoint from every
\* higher-priority timer's interval.
C1_DisjointAfterOneRun ==
    pc = "resolved_once" => NoOverlap(timers)

\* C8: a second run of the resolver on the output of a first run changes no
\* timer's next_time.
C8_SecondRunChangesNothing ==
    [][pc = "resolved_once" => timers' = timers]_vars

---------------------------------------------------------------------------
(* Properties of the scheduler and the control channel *)

\* now - timer.next_time of timer i in the current state
Diff(i) == now - timers[i].next_time

\* timer i is the first timer in priority order that is past its next_time
FirstOverdue(i) ==
    /\ Diff(i) > 0
    /\ \A j \in 1..(i - 1) : Diff(j) <= 0

\* the TimersThread leaves _check_timers' for loop in this step
CheckPass == pc = "check" /\ pc' # "check"

\* C2: at most one display session is active; while it is, the scheduler is blocked
\* inside it (no due-check, no other activation); a session begins only from a
\* due-check with no session active, and ends with the activated timer rescheduled.
C2_OneSessionBlocksScheduler ==
    [][ /\ (overlay' # 0 => pc' = "overlay")
        /\ (pc' = "overlay" => overlay' # 0)
        /\ (overlay' # 0 /\ overlay' # overlay => overlay = 0 /\ pc = "check")
        /\ (overlay # 0 /\ overlay' # overlay =>
                /\ overlay' = 0
                /\ pc' = "wait"
                /\ timers'[overlay].next_time > timers[overlay].next_time)
      ]_vars

\* a display session is active while another timer is past its next_time
C2_Witness ==
    /\ overlay # 0
    /\ \E i \in 1..Len(timers) : i # overlay /\ Diff(i) > 0

\* C3: when the first timer in priority order with now - next_time > 0 has
\* now - next_time >= 10, the pass starts no display session and sets every timer's
\* next_time to now + period_s; with now - next_time = 9 it does not reset.
C3_SleepDetection ==
    [][ CheckPass =>
        \A i \in 1..Len(timers) :
            /\ (FirstOverdue(i) /\ Diff(i) >= 10 =>
                    /\ overlay' = 0
                    /\ pc' = "wait"
                    /\ \A k \in 1..Len(timers) :
                          timers'[k].next_time = now + timers[k].period_s)
            /\ (FirstOverdue(i) /\ Diff(i) = 9 =>
                    /\ overlay' = i
                    /\ timers' = timers)
      ]_vars

\* the state after a sleep detection: no message was ever sent, time has passed, and
\* every timer stands at now + period_s with no session shown
C3_Witness ==
    /\ pc = "wait"
    /\ overlay = 0
    /\ enqueued = <<>>
    /\ now >= 10
    /\ \A k \in 1..Len(timers) : timers[k].next_time = now + timers[k].period_s

\* C4 as stated: whenever some timer has 0 < now - next_time < 10, the first such
\* timer is activated, whatever the other timers' next_time.
C4_Original ==
    [][ CheckPass =>
        \A i \in 1..Len(timers) :
            ( /\ Diff(i) > 0 /\ Diff(i) < 10
              /\ \A j \in 1..(i - 1) : ~(Diff(j) > 0 /\ Diff(j) < 10) )
            => overlay' = i
      ]_vars

\* C4 as amended: when the first timer in priority order with now - next_time > 0
\* has now - next_time < 10, exactly that timer is activated and no next_time
\* changes before its session; a timer with now - next_time = 0 is not due, so with
\* no timer past its next_time nothing is activated.
C4_NearDueActivation ==
    [][ CheckPass =>
        /\ \A i \in 1..Len(timers) :
              FirstOverdue(i) /\ Diff(i) < 10 =>
                  /\ overlay' = i
                  /\ pc' = "overlay"
                  /\ timers' = timers
        /\ ((\A i \in 1..Len(timers) : Diff(i) <= 0) =>
                  /\ overlay' = 0
                  /\ pc' = "wait"
                  /\ timers' = timers)
      ]_vars

\* a session that has just started for a timer with next_time = now - 3
C4_Witness ==
    /\ overlay # 0
    /\ pc = "overlay"
    /\ overlay_start = now
    /\ Diff(overlay) = 3

\* C5: when App._quit runs while a display session is active, the session is closed
\* as part of handling Quit.
C5_QuitClosesSession ==
    [][ app_pc = "quit_set" /\ app_pc' = "join" /\ overlay # 0 => overlay' = 0 ]_vars

\* q is p with values appended at its end
Extends(q, p) ==
    /\ Len(q) >= Len(p)
    /\ SubSeq(q, 1, Len(p)) = p

\* C6: while a display session is active no message is dequeued or applied (the
\* queue only grows at its end), and the messages are applied in the order they were
\* enqueued: the applied messages followed by the queue are always the enqueued ones.
C6_QueueHeldThenFifo ==
    [][ /\ (overlay # 0 =>
                /\ applied' = applied
                /\ Extends(timers_event_queue', timers_event_queue))
        /\ applied' \o timers_event_queue' = enqueued'
      ]_vars

\* two different messages are waiting in the queue while a display session is active
C6_Witness ==
    /\ overlay # 0
    /\ Len(timers_event_queue) = 2
    /\ timers_event_queue[1] # timers_event_queue[2]

\* d is k * period for a whole k >= least
MultipleOf(d, period, least) ==
    /\ d % period = 0
    /\ d >= least * period

\* C7: reschedule() adds exactly period_s to next_time and changes nothing else; so
\* when a session returns, the activated timer moves forward by a positive whole
\* multiple of its period_s (exactly one period_s for the highest-priority timer),
\* and every other timer by a whole multiple (possibly zero) of its own period_s.
C7_RescheduleAddsPeriod ==
    [][ /\ \A i \in 1..Len(timers) :
              reschedule(timers[i]) =
                  [period_s |-> timers[i].period_s,
                   duration_s |-> timers[i].duration_s,
                   next_time |-> timers[i].next_time + timers[i].period_s]
        /\ (overlay # 0 /\ overlay' = 0 =>
              /\ Len(timers') = Len(timers)
              /\ \A i \in 1..Len(timers) :
                    /\ timers'[i].period_s = timers[i].period_s
                    /\ timers'[i].duration_s = timers[i].duration_s
                    /\ MultipleOf(timers'[i].next_time - timers[i].next_time,
                                  timers[i].period_s, IF i = overlay THEN 1 ELSE 0)
              /\ (overlay = 1 =>
                    timers'[1].next_time = timers[1].next_time + timers[1].period_s))
      ]_vars

\* the highest-priority timer has been activated once and stands at twice its
\* period_s (no reset and no sleep detection can have happened yet)
C7_Witness ==
    /\ pc = "wait"
    /\ overlay = 0
    /\ now < 10
    /\ ~(\E k \in 1..Len(applied) : applied[k] = RESET_TIMERS)
    /\ timers[1].next_time = 2 * timers[1].period_s

\* C9: a Status request whose wait on main_event_queue ends with nothing received
\* shows no notification and raises nothing: _timers_status returns to the menu.
C9_StatusTimeoutIsSilent ==
    [][ app_pc = "status_get" /\ app_pc' # "status_get" /\ main_event_queue = <<>> =>
            /\ app_pc' = "menu"
            /\ notifications' = notifications
            /\ main_event_queue' = <<>>
      ]_vars

\* a Status request has returned to the menu unanswered: it is still in the queue
\* and nothing was notified
C9_Witness ==
    /\ app_pc = "menu"
    /\ notifications = 0
    /\ main_event_queue = <<>>
    /\ enqueued = <<STATUS>>
    /\ applied = <<>>

\* C10: the step that dequeues Quit puts the TimersThread in its final state, and
\* from there it never applies a message, produces a status, changes a timer or the
\* geometry cache, or shows an overlay.
C10_QuitTerminates ==
    [][ /\ (Len(applied') > Len(applied) /\ applied'[Len(applied')] = QUIT =>
                pc' = "done")
        /\ (pc = "done" =>
                /\ pc' = "done"
                /\ applied' = applied
                /\ timers_event_queue' = timers_event_queue
                /\ timers' = timers
                /\ geometries' = geometries
                /\ overlay' = 0
                /\ Len(main_event_queue') <= Len(main_event_queue))
      ]_vars

\* the TimersThread has returned on Quit while a timer is past its next_time
C10_Witness ==
    /\ pc = "done"
    /\ applied[Len(applied)] = QUIT
    /\ \E i \in 1..Len(timers) : Diff(i) > 0

---------------------------------------------------------------------------
(* The program with its threads scheduled fairly *)

\* a step of the TimersThread; every display session ends (click or duration_s)
TimersThreadNext ==
    \/ WaitWake
    \/ WaitTimeout
    \/ ClearWake
    \/ DrainEmpty
    \/ HandleStatus
    \/ HandleUpdateGeometry
    \/ HandleReset
    \/ HandleQuit
    \/ CheckNoneDue
    \/ CheckActivate
    \/ CheckSleepDetected
    \/ OverlayTick
    \/ OverlayReturn

\* a menu callback that has put its message goes on to set the wake event
AppSetNext ==
    \/ AppStatusSet
    \/ AppResetSet
    \/ AppGeometrySet
    \/ AppQuitSet

\* a configuration with few timer events, for the runs checked under fairness
FairConfigs == { <<TimerConfig(8, 2), TimerConfig(7, 1)>> }

FairInit == InitWith(FairConfigs)

FairSpec ==
    FairInit /\ [][Next]_vars /\ WF_vars(TimersThreadNext) /\ WF_vars(AppSetNext)

\* the sender is between its put and its set
SenderBeforeSet == app_pc \in {"status_set", "reset_set", "geometry_set", "quit_set"}

\* the TimersThread idles with the wake event clear, the sender has finished its
\* set, and a message is left in the queue
Stranded ==
    /\ pc = "wait"
    /\ ~timers_wake_event
    /\ ~SenderBeforeSet
    /\ timers_event_queue # <<>>

\* C11: no message is stranded (never: thread idle, wake event clear, sender done,
\* queue non-empty); the messages applied so far followed by the queue are the
\* messages enqueued, in order; and the k-th enqueued message is eventually applied
\* unless the thread has returned on a Quit before it.
C11_NoMessageStranded ==
    /\ [](~Stranded /\ applied \o timers_event_queue = enqueued)
    /\ \A k \in 1..MaxMsgs :
          [](Len(enqueued) >= k => <>(Len(applied) >= k \/ pc = "done"))

\* two sets have collapsed into one wake: both messages are queued, the wake event
\* is set once, and the thread has not yet woken
C11_Witness ==
    /\ pc = "wait"
    /\ timers_wake_event
    /\ Len(timers_event_queue) = 2
    /\ ~SenderBeforeSet
    /\ applied = <<>>

---------------------------------------------------------------------------
(* The drain loop on queues that also hold values that are no TimerMessage *)

UNKNOWN == "UNKNOWN"

\* values on timers_event_queue that match none of the four branches
UnknownValues == {UNKNOWN}

\* variant of the else branch that raises instead of printing: the thread ends
after_unknown_raises == "done"

\* the position of run after the else branch: print("Unknown message"), next get_nowait()
after_unknown == "drain"

\* else: print("Unknown message")
HandleUnknown ==
    /\ \E event \in UnknownValues : Dequeue(event)
    /\ pc' = after_unknown
    /\ UNCHANGED resolver_position
    /\ UNCHANGED <<timers, now, timers_wake_event, main_event_queue, geometries,
                   overlay, overlay_start, app_pc, enqueued, notifications>>

\* the queues handed to the drain loop: 1 to MaxMsgs values, known or not
RECURSIVE QueuesOfLen(_)
QueuesOfLen(n) ==
    IF n = 0 THEN {<<>>}
    ELSE {Append(q, v) : q \in QueuesOfLen(n - 1), v \in TimerMessage \cup UnknownValues}

DrainQueues == UNION {QueuesOfLen(n) : n \in 1..MaxMsgs}

\* the constructed thread, with a queue already filled and the wake event set
DrainInit ==
    /\ now = 0
    /\ \E cfg \in MainConfigs :
        timers = reschedule_covered_timers(new_timers(cfg, now))
    /\ geometries = 1
    /\ overlay = 0
    /\ overlay_start = 0
    /\ timers_event_queue \in DrainQueues
    /\ enqueued = timers_event_queue
    /\ timers_wake_event = TRUE
    /\ main_event_queue = <<>>
    /\ pc = "wait"
    /\ app_pc = "menu"
    /\ applied = <<>>
    /\ notifications = 0
    /\ loop_timer_idx = 0
    /\ loop_higher_idx = 0

DrainNext ==
    \/ TimersThreadNext
    \/ HandleUnknown

SpecDrain == DrainInit /\ [][DrainNext]_vars

\* C12: dequeuing a value that is none of the four messages changes no timer,
\* produces no status, leaves geometry cache and overlay alone, does not end the
\* thread, and leaves it in the drain loop with the rest of the queue.
C12_UnknownSkipped ==
    [][ Len(applied') > Len(applied) /\ applied'[Len(applied')] \notin TimerMessage =>
            /\ timers' = timers
            /\ main_event_queue' = main_event_queue
            /\ geometries' = geometries
            /\ overlay' = overlay
            /\ timers_event_queue' = Tail(timers_event_queue)
            /\ pc' = "drain"
      ]_vars

\* an unknown value was skipped, the message behind it was applied, and the thread
\* has gone on to its due-check
C12_Witness ==
    /\ pc = "check"
    /\ Len(applied) = 2
    /\ applied[1] = UNKNOWN
    /\ applied[2] = RESET_TIMERS

---------------------------------------------------------------------------
(* Further properties of the scheduler *)

\* the due-check of this step takes the sleep-detection branch
SleepDetectedPass ==
    /\ CheckPass
    /\ \E i \in 1..Len(timers) : FirstOverdue(i) /\ Diff(i) >= 10

\* C13: after a sleep-detection reset the resolver is run before the thread goes
\* back to waiting: the timers it waits with are the resolver's output on the reset
\* timers.
C13_ResolverRunsAfterSleepReset ==
    [][ SleepDetectedPass =>
            timers' = reschedule_covered_timers(reset_all(timers, now)) ]_vars

\* C14 as stated: whenever the thread comes to its due-check, by timeout or by
\* wake, the queue has been drained: no message is waiting in it.
C14_Original ==
    [][ pc # "check" /\ pc' = "check" => timers_event_queue' = <<>> ]_vars

\* C14 as amended: an exit from the wait by wake (event set) goes through clear and
\* drain, and reaches the due-check only with the queue empty; an exit by timeout
\* (event clear) goes straight to the due-check and dequeues nothing.
C14_WakeDrainsTimeoutDoesNot ==
    [][ /\ (pc = "wait" /\ pc' # "wait" =>
              \/ timers_wake_event /\ pc' = "clear"
              \/ /\ ~timers_wake_event
                 /\ pc' = "check"
                 /\ applied' = applied
                 /\ timers_event_queue' = timers_event_queue)
        /\ (pc = "clear" /\ pc' # "clear" => pc' = "drain")
        /\ (pc = "drain" /\ pc' = "check" => timers_event_queue = <<>>)
        /\ (pc # "check" /\ pc' = "check" => pc \in {"wait", "drain"})
      ]_vars

\* a session has just started after a timeout while a message, put but not yet
\* signalled, is waiting in the queue
C14_Witness ==
    /\ pc = "overlay"
    /\ overlay_start = now
    /\ timers_event_queue # <<>>
    /\ ~timers_wake_event
    /\ applied = <<>>

\* this step dequeues and applies the message msg
Applies(msg) ==
    /\ Len(applied') = Len(applied) + 1
    /\ applied'[Len(applied')] = msg

\* C15: applying a Reset at time now leaves the highest-priority timer at exactly
\* now + period_s, every timer at now + k * period_s for a whole k >= 1, and so no
\* timer due, whatever the next_time values were before.
C15_ResetThenResolve ==
    [][ Applies(RESET_TIMERS) =>
            /\ Len(timers') = Len(timers)
            /\ timers'[1].next_time = now + timers[1].period_s
            /\ \A i \in 1..Len(timers) :
                  /\ timers'[i].period_s = timers[i].period_s
                  /\ timers'[i].duration_s = timers[i].duration_s
                  /\ MultipleOf(timers'[i].next_time - now, timers[i].period_s, 1)
                  /\ timers'[i].next_time > now
      ]_vars

\* a Reset applied after time has passed, with a timer that was overdue before now
\* moved by the resolver to two or more periods from now
C15_Witness ==
    /\ pc = "drain"
    /\ now > 0
    /\ applied # <<>>
    /\ applied[Len(applied)] = RESET_TIMERS
    /\ \E i \in 1..Len(timers) : timers[i].next_time >= now + 2 * timers[i].period_s

\* C16: the report a Status request takes from main_event_queue and shows was
\* computed after that request was enqueued: when it was computed, the request now
\* waiting (the latest one enqueued) was already among the enqueued messages.
C16_ReportAnswersItsRequest ==
    [][ notifications' = notifications + 1 =>
            Head(main_event_queue).requests = StatusRequests(enqueued) ]_vars

---------------------------------------------------------------------------
(* The scheduler alone on a machine that is never suspended: every wait times
   out after its POLL_TIMEOUT, no message arrives, every overlay closes itself *)

SteadyInit == InitWith(ConfigSet)

SteadyNext ==
    \/ WaitTimeoutBy(POLL_TIMEOUT)
    \/ CheckNoneDue
    \/ CheckActivate
    \/ CheckSleepDetected
    \/ OverlayTick
    \/ OverlayReturn

SpecSteady == SteadyInit /\ [][SteadyNext]_vars

\* C17: without a suspension, with duration dominance, the due-check never takes
\* the sleep-detection branch: no timer is found overdue by SLEEP_THRESHOLD or more.
C17_NoFalseSleepDetection ==
    pc = "check" => check_timers(timers, now).do # "reset"

---------------------------------------------------------------------------
(* _reschedule_covered_timers statement by statement, on timer lists that need
   not pass the duration check of the config load *)

\* timestamps at which a timer of an input list was last reset
StartTimes == 0..MaxDuration

\* lists of n timers, any periods and durations, each reset at a time of its own
TimersResetAt(n) ==
    { [i \in 1..n |-> Timer(cfg[i], start[i])] :
        cfg \in [1..n -> ConfigDomain], start \in [1..n -> StartTimes] }

\* the lists the loops are run on: two timers reset at any times, three timers
\* reset together
LoopInputs ==
    TimersResetAt(2) \cup { new_timers(cfg, 0) : cfg \in [1..3 -> ConfigDomain] }

LoopInit ==
    /\ now = 0
    /\ timers \in LoopInputs
    /\ geometries = 1
    /\ overlay = 0
    /\ overlay_start = 0
    /\ timers_event_queue = <<>>
    /\ timers_wake_event = FALSE
    /\ main_event_queue = <<>>
    /\ pc = "for_timer"
    /\ app_pc = "menu"
    /\ enqueued = <<>>
    /\ applied = <<>>
    /\ notifications = 0
    /\ loop_timer_idx = 1
    /\ loop_higher_idx = 0

\* for timer_idx, timer in enumerate(self._timers): there is a next timer
ForTimerNext ==
    /\ pc = "for_timer"
    /\ loop_timer_idx <= Len(timers)
    /\ loop_higher_idx' = 1
    /\ pc' = "for_higher"
    /\ UNCHANGED <<timers, now, timers_event_queue, timers_wake_event, main_event_queue,
                   geometries, overlay, overlay_start, app_pc, enqueued, applied,
                   notifications, loop_timer_idx>>

\* the outer for loop is exhausted: _reschedule_covered_timers returns
ForTimerEnd ==
    /\ pc = "for_timer"
    /\ loop_timer_idx > Len(timers)
    /\ loop_timer_idx' = 0
    /\ loop_higher_idx' = 0
    /\ pc' = "resolved"
    /\ UNCHANGED <<timers, now, timers_event_queue, timers_wake_event, main_event_queue,
                   geometries, overlay, overlay_start, app_pc, enqueued, applied,
                   notifications>>

\* for higher_prio_timer in self._timers[:timer_idx]: there is a next one
ForHigherNext ==
    /\ pc = "for_higher"
    /\ loop_higher_idx < loop_timer_idx
    /\ pc' = "while"
    /\ UNCHANGED <<timers, now, timers_event_queue, timers_wake_event, main_event_queue,
                   geometries, overlay, overlay_start, app_pc, enqueued, applied,
                   notifications, loop_timer_idx, loop_higher_idx>>

\* the inner for loop is exhausted: on to the next timer
ForHigherEnd ==
    /\ pc = "for_higher"
    /\ loop_higher_idx >= loop_timer_idx
    /\ loop_timer_idx' = loop_timer_idx + 1
    /\ pc' = "for_timer"
    /\ UNCHANGED <<timers, now, timers_event_queue, timers_wake_event, main_event_queue,
                   geometries, overlay, overlay_start, app_pc, enqueued, applied,
                   notifications, loop_higher_idx>>

\* variant of the loop body that reschedules higher_prio_timer instead of timer
WhileReschedule_higher ==
    /\ pc = "while"
    /\ covered(timers[loop_timer_idx], timers[loop_higher_idx])
    /\ timers' = [timers EXCEPT ![loop_higher_idx] = reschedule(@)]
    /\ UNCHANGED <<now, timers_event_queue, timers_wake_event, main_event_queue,
                   geometries, overlay, overlay_start, pc, app_pc, enqueued, applied,
                   notifications, loop_timer_idx, loop_higher_idx>>

\* the while condition holds: timer.reschedule()
WhileReschedule ==
    /\ pc = "while"
    /\ covered(timers[loop_timer_idx], timers[loop_higher_idx])
    /\ timers' = [timers EXCEPT ![loop_timer_idx] = reschedule(@)]
    /\ UNCHANGED <<now, timers_event_queue, timers_wake_event, main_event_queue,
                   geometries, overlay, overlay_start, pc, app_pc, enqueued, applied,
                   notifications, loop_timer_idx, loop_higher_idx>>

\* the while condition fails: on to the next higher_prio_timer
WhileEnd ==
    /\ pc = "while"
    /\ ~covered(timers[loop_timer_idx], timers[loop_higher_idx])
    /\ loop_higher_idx' = loop_higher_idx + 1
    /\ pc' = "for_higher"
    /\ UNCHANGED <<timers, now, timers_event_queue, timers_wake_event, main_event_queue,
                   geometries, overlay, overlay_start, app_pc, enqueued, applied,
                   notifications, loop_timer_idx>>

LoopNext ==
    \/ ForTimerNext
    \/ ForTimerEnd
    \/ ForHigherNext
    \/ ForHigherEnd
    \/ WhileReschedule
    \/ WhileEnd

\* the thread that runs the loops is never stopped for good
SpecLoop == LoopInit /\ [][LoopNext]_vars /\ WF_vars(LoopNext)

\* the while loop is about to call timer.reschedule()
Covering ==
    pc = "while" /\ covered(timers[loop_timer_idx], timers[loop_higher_idx])

\* how far timer.next_time is from passing the finish time of higher_prio_timer
Behind ==
    get_next_time_finish(timers[loop_higher_idx]) - timers[loop_timer_idx].next_time

\* C18: on every list of timers with positive periods and durations, dominance or
\* not, _reschedule_covered_timers returns; each call of reschedule() in a while
\* loop leaves higher_prio_timer as it is and moves timer.next_time on by period_s,
\* from at or before the finish time of higher_prio_timer, and the loop goes on
\* exactly until timer.next_time is after that finish time.
C18_ResolverTerminates ==
    /\ <>(pc = "resolved")
    /\ [][ Covering =>
            /\ timers'[loop_higher_idx] = timers[loop_higher_idx]
            /\ timers'[loop_timer_idx].next_time =
                   timers[loop_timer_idx].next_time + timers[loop_timer_idx].period_s
            /\ Behind >= 0
            /\ Behind' = Behind - timers[loop_timer_idx].period_s
            /\ pc' = "while"
            /\ Covering' <=> Behind' >= 0 ]_vars

\* the resolver has returned on a list that breaks duration dominance, after
\* rescheduling its last timer at least twice
C18_Witness ==
    /\ pc = "resolved"
    /\ ~DurationDominance(timers)
    /\ timers[Len(timers)].next_time >=
           MaxDuration + 3 * timers[Len(timers)].period_s

---------------------------------------------------------------------------
(* The scheduler run without end.  The program only ever uses differences of
   timestamp() readings, so the clock is read relative to the present moment:
   now stays where it is and, when d seconds pass, every stored timestamp
   becomes d seconds older *)

\* the stored next_time values after d seconds, on the clock restarted at the present
older(ts, d) == [i \in 1..Len(ts) |-> [ts[i] EXCEPT !.next_time = @ - d]]

\* wait(timeout=1) returns False after its second; _check_timers runs
WaitPollPasses ==
    /\ pc = "wait"
    /\ ~timers_wake_event
    /\ timers' = older(timers, POLL_TIMEOUT)
    /\ pc' = "check"
    /\ UNCHANGED <<now, timers_event_queue, timers_wake_event, main_event_queue,
                   geometries, overlay, overlay_start, app_pc, enqueued, applied,
                   notifications, resolver_position>>

\* a second passes while the overlay is shown
OverlaySecondPasses ==
    /\ pc = "overlay"
    /\ overlay # 0
    /\ now - overlay_start < timers[overlay].duration_s
    /\ timers' = older(timers, 1)
    /\ overlay_start' = overlay_start - 1
    /\ UNCHANGED <<now, timers_event_queue, timers_wake_event, main_event_queue,
                   geometries, overlay, pc, app_pc, enqueued, applied, notifications,
                   resolver_position>>

\* a usual configuration, and one whose second timer asks for 2 s every second
EndlessConfigs ==
    { <<TimerConfig(6, 2), TimerConfig(4, 1)>>,
      <<TimerConfig(18, 2), TimerConfig(1, 2)>> }

EndlessInit == InitWith(EndlessConfigs)

EndlessNext ==
    \/ WaitPollPasses
    \/ CheckNoneDue
    \/ CheckActivate
    \/ CheckSleepDetected
    \/ OverlaySecondPasses
    \/ OverlayReturn

\* the thread keeps running, time keeps passing, every overlay is closed in the end
SpecEndless == EndlessInit /\ [][EndlessNext]_vars /\ WF_vars(EndlessNext)

\* C19: with no Reset, no Quit and no suspension, and every overlay session ending,
\* the highest-priority timer is activated again and again, and each of its
\* activations starts after its next_time and less than SLEEP_THRESHOLD after it.
C19_HighestPriorityRecurs ==
    /\ []<>(pc = "overlay" /\ overlay = 1)
    /\ [][ pc = "check" /\ pc' = "overlay" /\ overlay' = 1 =>
              Diff(1) > 0 /\ Diff(1) < SLEEP_THRESHOLD ]_vars

---------------------------------------------------------------------------
(* Priority protection *)

\* the resolver runs in this step
ResolverRuns == pc \in {"resolver_input", "resolved_once"}

\* the first i timers of ts
Higher(ts, i) == SubSeq(ts, 1, i)

\* C20: a run of the resolver leaves the highest-priority timer where it is, and
\* what it does to the timer at index i is what it does when run on the timers up
\* to i alone: the result for the first i timers is the same with the lower-priority
\* timers removed, with the lowest one replaced by any other, and with one more added.
C20_PriorityProtection ==
    [][ ResolverRuns =>
          /\ timers'[1] = timers[1]
          /\ \A i \in 1..Len(timers) :
                Higher(timers', i) = reschedule_covered_timers(Higher(timers, i))
          /\ \A cfg \in ConfigDomain : \A t \in StartTimes :
                LET n == Len(timers)
                    changed == [timers EXCEPT ![n] = Timer(cfg, t)]
                    added == Append(timers, Timer(cfg, t))
                IN  /\ Higher(reschedule_covered_timers(changed), n - 1)
                           = Higher(timers', n - 1)
                    /\ Higher(reschedule_covered_timers(added), n) = timers'
      ]_vars

\* the resolver has run on three timers and moved the two lower ones, not the first
C20_Witness ==
    /\ pc = "resolved_once"
    /\ Len(timers) = 3
    /\ timers[1].next_time = timers[1].period_s
    /\ timers[2].next_time > timers[2].period_s
    /\ timers[3].next_time > timers[3].period_s

====
